---- MODULE Spec2Model ----
(***************************************************************************)
(* Two-tower recommender coursework (emiliagadeeva/RecSys, hwweek4).       *)
(*                                                                         *)
(* The module models                                                       *)
(*   - one model object of the two-tower class family and its train()      *)
(*     calls (the four versions of the base class found in the sources),   *)
(*   - the embedding lookups and the top-K retrieval,                      *)
(*   - MovieLensApp: loadData, trainAllModels, compareAllModels,           *)
(*   - MovieLensApp.createNegativeSamples.                                 *)
(*                                                                         *)
(* Javascript here is single threaded: a handler runs without             *)
(* interruption up to its next `await`.  An action of this module is one   *)
(* such run-to-await segment (or a whole synchronous function).            *)
(***************************************************************************)
EXTENDS Integers, Sequences, FiniteSets, TLC

(***************************************************************************)
(* Bounds of the model.                                                    *)
(***************************************************************************)
MaxCalls == 2        \* train() calls that may be in flight on one object
MaxEpochs == 2       \* epochs argument of train ranges over 0..MaxEpochs
MaxData == 2         \* userInput.shape[0] ranges over 0..MaxData
MaxBatch == 2        \* batchSize argument ranges over 1..MaxBatch
MaxLoss == 2         \* a batch loss ranges over 1..MaxLoss
MaxMovieId == 3      \* movie ids range over 1..MaxMovieId
MaxScore == 1        \* similarity scores range over 0..MaxScore
TestMovieLimit == 2  \* stands for the 200 of allMovies.slice(0, 200)
MaxLoads == 2        \* loadData executions that may overlap
MaxRatings == 1      \* data.ratings holds at most MaxRatings records
MaxDim == 3          \* constructor arguments of a model range over 1..MaxDim
MaxUserId == 2       \* stands for the 200 of Math.random() * 200
NegMovies == 2       \* movie ids of the negative sampling data

NULL == "null"

Min(a, b) == IF a < b THEN a ELSE b

Range(s) == {s[i] : i \in DOMAIN s}

VARIABLES
    variant,     \* which version of the base class the model object has
    model,       \* this.model
    userTower,   \* this.userTower
    itemTower,   \* this.itemTower
    calls,       \* the activations of train(): locals and position
    lookup,      \* the last embedding lookup / recommend guard outcome
    rec,         \* the last retrieval: its inputs and what it returned
    app,         \* MovieLensApp fields
    loads,       \* the activations of MovieLensApp.loadData
    compare,     \* what the last compareAllModels did
    neg,         \* data and locals of createNegativeSamples
    graph,       \* a buildModel run: constructor arguments and tower widths
    mf,          \* hwweek3: the parsed data, the table sizes, the dropdowns
    ds,          \* one createDataset object and its current iterator
    ix,          \* the embedding rows used for the loaded ids
    met,         \* one calculateAllMetrics run for one model and test user
    runs,        \* the activations of MovieLensApp.trainAllModels
    page,        \* hwweek3: window.onload, trainModel and the data globals
    prep         \* a prepareTrainingData run: the data and the examples

vars == <<variant, model, userTower, itemTower, calls, lookup, rec, app,
          loads, compare, neg, graph, prep, page, runs, mf, ds, ix,
          met>>

instanceVars == <<variant, model, userTower, itemTower>>

trainVars == <<instanceVars, calls, lookup>>

appVars == <<app, loads, compare>>

\* the variables of the runs of single functions on drawn inputs
pureVars == <<mf, ds, ix, met>>

otherVars == <<graph, prep, page, runs, pureVars>>

\* the variables outside the runs of single functions
programVars == <<trainVars, rec, appVars, neg, graph, prep, page, runs>>

(***************************************************************************)
(* The model object.  The sources hold four versions of the base class:    *)
(*   "part_001"     BaseTwoTower of src/unnamed/part_001                   *)
(*   "tt412"        BaseTwoTower of two-tower.js:412 (= part_000)          *)
(*   "tt740"        BaseTwoTower of two-tower.js:740                       *)
(*   "TwoTowerBase" TwoTowerBase of two-tower.js:1                         *)
(***************************************************************************)
Variants == {"part_001", "tt412", "tt740", "TwoTowerBase"}

CallIds == 1..MaxCalls

\* trainOnBatch resolves to [loss, accuracy]
Results == [loss : 1..MaxLoss, acc : 0..1]

\* Where buildModel can throw: the subclasses assign this.userTower, then
\* this.itemTower, then this.model, then call compileModel.
BuildOutcomes == {"ok", "throwsFirst", "throwsAfterUserTower",
                  "throwsAfterItemTower", "throwsInCompile"}

\* A history entry <<s, n>> is the quotient s / n (n = 0: NaN).
EmptyHistory == [loss |-> <<>>, acc |-> <<>>]

IdleCall == [pc |-> "idle", epochs |-> 0, dataSize |-> 0, batchSize |-> 1,
             epoch |-> 0, batch |-> 0, position |-> 0,
             epochLoss |-> 0, epochAcc |-> 0, batchCount |-> 0,
             history |-> EmptyHistory,
             overlapped |-> FALSE, ran |-> FALSE, batchFailed |-> FALSE,
             buildThrew |-> FALSE, acquired |-> 0, released |-> 0,
             \* shuffles of the examples done inside this call: no version of
             \* train or createDataset has one, batches are cut at
             \* position, position + batchSize, ... in every epoch
             shuffles |-> 0]

\* Math.ceil(userInput.shape[0] / batchSize)
NumBatches(cr) == (cr.dataSize + cr.batchSize - 1) \div cr.batchSize

\* The entry pushed for a finished epoch, or none.
EpochEntries(v, cr) ==
    CASE v = "part_001" ->
           IF cr.batchCount > 0
           THEN [loss |-> <<<<cr.epochLoss, cr.batchCount>>>>,
                 acc  |-> <<<<cr.epochAcc, cr.batchCount>>>>]
           ELSE EmptyHistory
      [] v = "tt412" ->
           [loss |-> <<<<cr.epochLoss, cr.batchCount>>>>,
            acc  |-> <<<<cr.epochAcc, cr.batchCount>>>>]
      [] OTHER ->
           [loss |-> <<<<cr.epochLoss, NumBatches(cr)>>>>,
            acc  |-> <<<<cr.epochAcc, NumBatches(cr)>>>>]

\* The end of the body of the epoch loop: record the epoch, epoch++.
EndEpoch(v, cr) ==
    [cr EXCEPT !.history = [loss |-> cr.history.loss \o EpochEntries(v, cr).loss,
                            acc  |-> cr.history.acc \o EpochEntries(v, cr).acc],
               !.epoch = cr.epoch + 1]

\* Whether the batch loop of an epoch has a batch at this point.
HasBatch(v, cr) ==
    IF v = "tt412" THEN cr.position < cr.dataSize
                   ELSE cr.batch < NumBatches(cr)

\* train() from the test of the epoch loop up to its next await or return.
RECURSIVE EpochLoop(_, _)
EpochLoop(v, cr) ==
    IF cr.epoch >= cr.epochs
    THEN [cr EXCEPT !.pc = "resolved"]
    ELSE LET fresh == [cr EXCEPT !.epochLoss = 0, !.epochAcc = 0,
                                 !.batchCount = 0, !.batch = 0, !.position = 0]
         IN  IF HasBatch(v, fresh)
             THEN [fresh EXCEPT !.pc = "batch"]
             ELSE EpochLoop(v, EndEpoch(v, fresh))

\* train() from the end of a batch up to its next await or return.
NextBatch(v, cr) ==
    IF HasBatch(v, cr) THEN [cr EXCEPT !.pc = "batch"]
                       ELSE EpochLoop(v, EndEpoch(v, cr))

\* The batch [position, end) has been taken from the data.
Advance(cr) ==
    [cr EXCEPT !.position = Min(cr.position + cr.batchSize, cr.dataSize),
               !.batch = cr.batch + 1]

\* trainOnBatch resolved with r.
Accumulate(v, cr, r) ==
    [cr EXCEPT !.epochLoss = cr.epochLoss + r.loss,
               !.epochAcc = cr.epochAcc + r.acc,
               !.batchCount = IF v = "tt740" THEN 0 ELSE cr.batchCount + 1]

\* userBatch, movieIdBatch, genreBatch, labelBatch
BatchTensors == 4

\* n tensors created for a batch
Acquire(cr, n) == [cr EXCEPT !.acquired = cr.acquired + n]

\* tf.dispose([userBatch, movieIdBatch, genreBatch, labelBatch]); the train
\* of two-tower.js:753 has no such call.
Dispose(v, cr) ==
    IF v = "tt740" THEN cr
    ELSE [cr EXCEPT !.released = cr.released + BatchTensors]

\* What a throwing trainOnBatch does to the call: part_001 catches it,
\* disposes in its finally block and goes on with the next batch; the other
\* versions have no try block.
BatchThrows(v, cr) ==
    IF v = "part_001"
    THEN NextBatch(v, [Advance(Dispose(v, cr)) EXCEPT !.batchFailed = TRUE])
    ELSE [cr EXCEPT !.pc = "rejected", !.batchFailed = TRUE]

\* The fields buildModel has assigned when it returns or throws.
BuiltUserTower(bo) == bo # "throwsFirst"
BuiltItemTower(bo) == bo \in {"ok", "throwsAfterItemTower", "throwsInCompile"}
BuiltModel(bo) == bo \in {"ok", "throwsInCompile"}

TrainInit ==
    /\ variant \in Variants
    /\ model = NULL
    /\ userTower = NULL
    /\ itemTower = NULL
    /\ calls = [c \in CallIds |-> IdleCall]
    /\ lookup = [op |-> "none", rejected |-> FALSE, trained |-> FALSE]

Trained == \E c \in CallIds : calls[c].pc = "resolved"

InFlight(c) == calls[c].pc = "batch"

(***************************************************************************)
(* train(userInput, movieInput, ratings, epochs, batchSize) from its call  *)
(* to its first await.                                                     *)
(***************************************************************************)
TrainStartBase(c, E, N, B) ==
    /\ variant # "TwoTowerBase"
    /\ calls[c].pc = "idle"
    /\ \E epochs \in E, n \in N, bs \in B, bo \in BuildOutcomes :
         LET build == model = NULL
             ok == ~build \/ bo = "ok"
             cr == [IdleCall EXCEPT !.epochs = epochs, !.dataSize = n,
                                    !.batchSize = bs,
                                    !.overlapped = \E d \in CallIds : InFlight(d)]
         IN  /\ (~build) => bo = "ok"
             /\ model' = IF build /\ BuiltModel(bo) THEN "tf.model" ELSE model
             /\ userTower' = IF build /\ BuiltUserTower(bo)
                             THEN "tf.model" ELSE userTower
             /\ itemTower' = IF build /\ BuiltItemTower(bo)
                             THEN "tf.model" ELSE itemTower
             /\ calls' = [calls EXCEPT ![c] =
                   IF ~ok THEN [cr EXCEPT !.pc = "rejected", !.buildThrew = TRUE]
                   \* tt412 line 434: tf.tensor2d([]) throws on no examples
                   ELSE IF variant = "tt412" /\ n = 0
                        THEN [cr EXCEPT !.pc = "rejected"]
                   ELSE EpochLoop(variant, cr)]
    /\ UNCHANGED <<variant, lookup, rec, appVars, neg, otherVars>>

\* TwoTowerBase.train: createModel, prepareTrainingData, first trainEpoch
TrainStartTTB(c, E, N) ==
    /\ variant = "TwoTowerBase"
    /\ calls[c].pc = "idle"
    /\ \E epochs \in E, n \in N, createThrows \in BOOLEAN, prepThrows \in BOOLEAN :
         LET build == model = NULL
             cr == [IdleCall EXCEPT !.epochs = epochs, !.dataSize = n,
                                    !.overlapped = \E d \in CallIds : InFlight(d)]
         IN  /\ (~build) => ~createThrows
             /\ createThrows => ~prepThrows
             /\ model' = IF build /\ ~createThrows THEN "tf.model" ELSE model
             /\ calls' = [calls EXCEPT ![c] =
                   IF createThrows \/ prepThrows
                   THEN [cr EXCEPT !.pc = "rejected", !.buildThrew = createThrows]
                   \* the epoch loop has no pass: train returns the history
                   ELSE IF epochs = 0 THEN [cr EXCEPT !.pc = "resolved"]
                   ELSE [cr EXCEPT !.pc = "batch"]]
    /\ UNCHANGED <<variant, userTower, itemTower, lookup, rec, appVars, neg, otherVars>>

(***************************************************************************)
(* One batch: the awaited iterator.next() and trainOnBatch, and what       *)
(* follows them up to the next await or the return of train.               *)
(***************************************************************************)
\* The batch at pc "batch" of call record cr: threw says whether trainOnBatch
\* throws, r is what it resolves to otherwise.
BatchStep(v, cr, threw, r) ==
    \* tt740 lines 811, 815: movieInput.slice(position, end - position) is
    \* empty once position > 0, and tf.tensor2d([]) throws in iterator.next()
    \* (userBatch and movieIdBatch exist by then)
    IF v = "tt740" /\ cr.position > 0
    THEN [Acquire(cr, 2) EXCEPT !.pc = "rejected"]
    ELSE LET run == [Acquire(cr, BatchTensors) EXCEPT !.ran = TRUE]
         IN  IF threw THEN BatchThrows(v, run)
             ELSE NextBatch(v, Advance(Dispose(v, Accumulate(v, run, r))))

TrainBatch(c, R) ==
    /\ variant # "TwoTowerBase"
    /\ calls[c].pc = "batch"
    /\ \E r \in R, threw \in BOOLEAN :
         calls' = [calls EXCEPT ![c] = BatchStep(variant, calls[c], threw, r)]
    /\ UNCHANGED <<instanceVars, lookup, rec, appVars, neg, otherVars>>

\* TwoTowerBase.trainEpoch reads this.genreFeatures, which nothing assigns.
TrainEpochTTB(c) ==
    /\ variant = "TwoTowerBase"
    /\ calls[c].pc = "batch"
    /\ calls' = [calls EXCEPT ![c].pc = "rejected"]
    /\ UNCHANGED <<instanceVars, lookup, rec, appVars, neg, otherVars>>

(***************************************************************************)
(* getUserEmbedding, getItemEmbedding (BaseTwoTower) and the guard of      *)
(* recommend (TwoTowerBase).  part_001 and tt740 test the tower and throw, *)
(* tt412 calls predict on the tower and throws a TypeError on null.        *)
(***************************************************************************)
LookupOps ==
    IF variant = "TwoTowerBase" THEN {"recommend"}
                                ELSE {"getUserEmbedding", "getItemEmbedding"}

LookupRejected(op) ==
    CASE op = "getUserEmbedding" -> userTower = NULL
      [] op = "getItemEmbedding" -> itemTower = NULL
      [] OTHER -> model = NULL

Lookup ==
    /\ \E op \in LookupOps :
         lookup' = [op |-> op, rejected |-> LookupRejected(op), trained |-> Trained]
    /\ UNCHANGED <<instanceVars, calls, rec, appVars, neg, otherVars>>

(***************************************************************************)
(* Retrieval.  A score is the number calculateSimilarity returns (finite,  *)
(* abstracted to 0..MaxScore keeping the order); NoScore marks a movie     *)
(* whose getItemEmbedding throws.                                          *)
(***************************************************************************)
MovieIds == 1..MaxMovieId

NoScore == -1

Scores == 0..MaxScore

TopKs == 0..(MaxMovieId + 1)

\* data.movies: a Map, iterated in insertion order, its keys distinct
MovieMaps ==
    {s \in UNION {[1..n -> MovieIds] : n \in 0..MaxMovieId} :
        \A i, j \in DOMAIN s : i # j => s[i] # s[j]}

\* allMovies.slice(0, 200)
TestMovies(allMovies) == SubSeq(allMovies, 1, Min(Len(allMovies), TestMovieLimit))

\* slice(0, count + 1): one entry too many
SliceOffByOne(s, count) == SubSeq(s, 1, Min(count + 1, Len(s)))

\* array.slice(0, count), count >= 0
Slice(s, count) == SubSeq(s, 1, Min(count, Len(s)))

\* a sort that is not stable: x goes before the elements of its score
RECURSIVE InsertBeforeTies(_, _)
InsertBeforeTies(sorted, x) ==
    IF sorted = <<>> THEN <<x>>
    ELSE IF Head(sorted).score > x.score
         THEN <<Head(sorted)>> \o InsertBeforeTies(Tail(sorted), x)
         ELSE <<x>> \o sorted

\* One step of scores.sort((a, b) => b.score - a.score): Array.prototype.sort
\* is stable, so x goes behind every element that does not score lower.
RECURSIVE Insert(_, _)
Insert(sorted, x) ==
    IF sorted = <<>> THEN <<x>>
    ELSE IF Head(sorted).score >= x.score
         THEN <<Head(sorted)>> \o Insert(Tail(sorted), x)
         ELSE <<x>> \o sorted

RECURSIVE SortByScore(_)
SortByScore(s) ==
    IF s = <<>> THEN <<>>
    ELSE Insert(SortByScore(SubSeq(s, 1, Len(s) - 1)), s[Len(s)])

\* The scores array of getRecommendations: one entry per test movie whose
\* getItemEmbedding and calculateSimilarity did not throw.
ScoresArray(testMovies, emb) ==
    SelectSeq([i \in 1..Len(testMovies) |->
                  [id |-> testMovies[i], score |-> emb[testMovies[i]]]],
              LAMBDA e : itemTower # NULL /\ e.score # NoScore)

\* MovieLensApp.getRecommendations(model, userId, count): what it returns.
\* An entry carries the id of the movie its title and genres come from.
GetRecommendations(allMovies, emb, count) ==
    IF userTower = NULL
    THEN <<>>
    ELSE Slice(SortByScore(ScoresArray(TestMovies(allMovies), emb)), count)

\* tf.topk(scores, topK) over the items 1..numItems, in score order
TopK(numItems, emb, topK) ==
    Slice(SortByScore([i \in 1..numItems |-> [id |-> i, score |-> emb[i]]]), topK)

\* TwoTowerBase.recommend(userId, movies, topK): whether it throws (the
\* guard, or tf.topk with k above the number of items) ...
RecommendThrows(numItems, topK) == model = NULL \/ topK > numItems

\* ... and what it returns otherwise: the top items that movies holds.
Recommend(numItems, movies, emb, topK) ==
    SelectSeq(TopK(numItems, emb, topK), LAMBDA e : e.id \in movies)

\* The keys of the object movies in ascending order
RECURSIVE KeysOf(_)
KeysOf(S) ==
    IF S = {} THEN <<>>
    ELSE LET m == CHOOSE x \in S : \A y \in S : x <= y
         IN  <<m>> \o KeysOf(S \ {m})

RecInit ==
    rec = [done |-> FALSE, api |-> "none", candidates |-> <<>>, scores |-> <<>>,
           count |-> 0, threw |-> FALSE, result |-> <<>>, trained |-> FALSE]

\* getRecommendations on a BaseTwoTower object
RetrieveApp ==
    /\ variant # "TwoTowerBase"
    /\ ~rec.done
    /\ \E allMovies \in MovieMaps, count \in TopKs :
         \E emb \in [Range(TestMovies(allMovies)) -> Scores \cup {NoScore}] :
            rec' = [done |-> TRUE, api |-> "getRecommendations",
                    candidates |-> TestMovies(allMovies),
                    scores |-> IF userTower = NULL THEN <<>>
                               ELSE ScoresArray(TestMovies(allMovies), emb),
                    count |-> count, threw |-> FALSE,
                    result |-> GetRecommendations(allMovies, emb, count),
                    trained |-> Trained]
    /\ UNCHANGED <<trainVars, appVars, neg, otherVars>>

\* recommend on a TwoTowerBase object
RetrieveTTB ==
    /\ variant = "TwoTowerBase"
    /\ ~rec.done
    /\ \E numItems \in MovieIds, movies \in SUBSET MovieIds, topK \in TopKs :
         \E emb \in [1..numItems -> Scores] :
            rec' = [done |-> TRUE, api |-> "recommend",
                    candidates |-> KeysOf(movies),
                    scores |-> [i \in 1..numItems |-> [id |-> i, score |-> emb[i]]],
                    count |-> topK, threw |-> RecommendThrows(numItems, topK),
                    result |-> IF RecommendThrows(numItems, topK) THEN <<>>
                               ELSE Recommend(numItems, movies, emb, topK),
                    trained |-> Trained]
    /\ UNCHANGED <<trainVars, appVars, neg, otherVars>>

(***************************************************************************)
(* MovieLensApp.  data.movies and data.users are null or a loaded table;   *)
(* data.ratings is null, or loaded with or without a rating >= 4.          *)
(***************************************************************************)
LoadIds == 1..MaxLoads

ModelNames == {"baseline", "mlp", "deep"}

NoData == [ratings |-> NULL, movies |-> NULL, users |-> NULL]

\* the fields after the constructor
NewApp ==
    [data |-> NoData, models |-> {}, isDataLoaded |-> FALSE,
     isTraining |-> FALSE, trainingHistories |-> {}]

NoCompare ==
    [ran |-> FALSE, lookups |-> {}, untrained |-> {}, whileTraining |-> FALSE]

AppInit ==
    /\ app = NewApp
    /\ loads = [l \in LoadIds |-> "idle"]
    /\ compare = NoCompare

\* loadData from the click to its first await
LoadDataClick(l) ==
    /\ loads[l] = "idle"
    /\ IF app.isTraining
       THEN UNCHANGED <<app, loads>>
       ELSE /\ app' = [app EXCEPT !.data = NoData, !.isDataLoaded = FALSE]
            /\ loads' = [loads EXCEPT ![l] = "loadMovies"]
    /\ UNCHANGED <<trainVars, rec, compare, neg, otherVars>>

\* loadMovies: u.item parsed, or loadMockMovies
LoadMovies(l) ==
    /\ loads[l] = "loadMovies"
    /\ app' = [app EXCEPT !.data.movies = "Map"]
    /\ loads' = [loads EXCEPT ![l] = "loadRatings"]
    /\ UNCHANGED <<trainVars, rec, compare, neg, otherVars>>

\* loadRatings: u.data parsed, or loadMockRatings, which reads
\* this.data.movies and throws when an overlapping loadData has reset it
LoadRatings(l) ==
    /\ loads[l] = "loadRatings"
    /\ \E fetched \in BOOLEAN, ratings \in {"noneHigh", "someHigh"} :
         IF ~fetched /\ app.data.movies = NULL
         THEN /\ loads' = [loads EXCEPT ![l] = "idle"]
              /\ UNCHANGED app
         ELSE /\ app' = [app EXCEPT !.data.ratings = ratings]
              /\ loads' = [loads EXCEPT ![l] = "loadUsers"]
    /\ UNCHANGED <<trainVars, rec, compare, neg, otherVars>>

\* loadUsers: u.user parsed, or loadMockUsers
LoadUsers(l) ==
    /\ loads[l] = "loadUsers"
    /\ app' = [app EXCEPT !.data.users = "Map"]
    /\ loads' = [loads EXCEPT ![l] = "finish"]
    /\ UNCHANGED <<trainVars, rec, compare, neg, otherVars>>

\* the three loaders returned true
LoadFinish(l) ==
    /\ loads[l] = "finish"
    /\ app' = [app EXCEPT !.isDataLoaded = TRUE]
    /\ loads' = [loads EXCEPT ![l] = "idle"]
    /\ UNCHANGED <<trainVars, rec, compare, neg, otherVars>>

\* a guard that looks at isDataLoaded only
GuardIgnoresTraining(a) == ~a.isDataLoaded

\* if (this.isTraining || !this.isDataLoaded) return
TrainGuardRefuses(a) == a.isTraining \/ ~a.isDataLoaded

\* Whether model.setStatusCallback(...) throws: no class of two-tower.js,
\* part_000 or part_001 defines setStatusCallback, so the call is a TypeError.
SetStatusCallbackThrows == TRUE

\* trainAllModels.  It throws before its first await (at data.users.size on
\* a reset table, or at setStatusCallback), so the whole handler, with its
\* catch and finally, is one step.
TrainAllModels ==
    /\ IF TrainGuardRefuses(app)
       THEN UNCHANGED app
       ELSE LET constructed == app.data.users # NULL /\ app.data.movies # NULL
                threw == ~constructed \/ SetStatusCallbackThrows
            IN  app' = [app EXCEPT
                  !.trainingHistories = {},
                  !.models = IF constructed THEN ModelNames ELSE app.models,
                  !.isTraining = ~threw]
    /\ UNCHANGED <<trainVars, rec, loads, compare, neg, otherVars>>

(***************************************************************************)
(* trainAllModels as written in prompt.md:346-391: the same guard, no      *)
(* setStatusCallback, and the three train calls awaited one after the      *)
(* other, so a click can arrive while an earlier one is between            *)
(* isTraining = true and its finally block.  runs[r] is one click.         *)
(***************************************************************************)
TrainingOrder == <<"baseline", "deep", "mlp">>

IdleRun == [pc |-> "idle", step |-> 0]

\* a finally block that leaves the flag as it is
FinallyKeepsFlag(a) == a

\* finally { this.isTraining = false; }
Finally(a) == [a EXCEPT !.isTraining = FALSE]

RunsInit == runs = [r \in CallIds |-> IdleRun]

\* the click up to the first await: the guard, isTraining = true, the three
\* constructors and prepareTrainingData, which may throw into catch/finally
TrainAllModelsClick(r) ==
    /\ runs[r].pc = "idle"
    /\ IF TrainGuardRefuses(app)
       THEN /\ runs' = [runs EXCEPT ![r].pc = "refused"]
            /\ UNCHANGED app
       ELSE \E threw \in BOOLEAN :
              /\ LET started == [app EXCEPT !.models = ModelNames,
                                            !.isTraining = TRUE]
                 IN  app' = IF threw THEN Finally(started) ELSE started
              /\ runs' = [runs EXCEPT
                           ![r] = IF threw THEN [pc |-> "failed", step |-> 0]
                                  ELSE [pc |-> "train", step |-> 1]]
    /\ UNCHANGED <<trainVars, rec, loads, compare, neg, graph, prep, page, pureVars>>

\* the awaited train call settles: its history is stored and the next
\* model is trained, or the catch and finally blocks end the run
TrainSettles(r) ==
    /\ runs[r].pc = "train"
    /\ \E ok \in BOOLEAN :
         LET name == TrainingOrder[runs[r].step]
             last == runs[r].step = Len(TrainingOrder)
         IN  IF ~ok
             THEN /\ app' = Finally(app)
                  /\ runs' = [runs EXCEPT ![r].pc = "failed"]
             ELSE /\ LET stored == [app EXCEPT
                                      !.trainingHistories = @ \cup {name}]
                     IN  app' = IF last THEN Finally(stored) ELSE stored
                  /\ runs' = [runs EXCEPT
                               ![r] = IF last THEN [pc |-> "done", step |-> @.step]
                                      ELSE [pc |-> "train", step |-> @.step + 1]]
    /\ UNCHANGED <<trainVars, rec, loads, compare, neg, graph, prep, page, pureVars>>

\* compareAllModels: the guard, findUserWithRatings, and the calls of
\* getRecommendations, each of which calls model.getUserEmbedding.
CompareAllModels ==
    /\ compare' =
         IF ~(ModelNames \subseteq app.models) \/ app.data.ratings # "someHigh"
         THEN [ran |-> TRUE, lookups |-> {}, untrained |-> {},
               whileTraining |-> FALSE]
         ELSE [ran |-> TRUE, lookups |-> ModelNames,
               untrained |-> ModelNames \ app.trainingHistories,
               whileTraining |-> app.isTraining]
    /\ UNCHANGED <<trainVars, rec, app, loads, neg, otherVars>>

(***************************************************************************)
(* MovieLensApp.createNegativeSamples, called by prepareTrainingData with  *)
(* the number of ratings >= 4.  A rating is [userId, movieId, rating].     *)
(***************************************************************************)
PositiveThreshold == 4

AttemptFactor == 5

\* allMovieIds[Math.floor(Math.random() * 0)] of an empty movie table
Undefined == 0

RatingRecords ==
    [userId : 1..MaxUserId, movieId : 1..NegMovies,
     rating : (PositiveThreshold - 1)..PositiveThreshold]

RatingLists == UNION {[1..n -> RatingRecords] : n \in 0..MaxRatings}

\* a filter that takes a rating of 3 for a positive one
PositiveFromThree(ratings) ==
    SelectSeq(ratings, LAMBDA r : r.rating >= PositiveThreshold - 1)

\* this.data.ratings.filter(r => r.rating >= 4)
PositiveInteractions(ratings) ==
    SelectSeq(ratings, LAMBDA r : r.rating >= PositiveThreshold)

\* a userMovies map keyed by movie instead of user
UserMoviesByMovie(ratings) == {<<r.movieId, r.userId>> : r \in Range(ratings)}

\* the userMovies map, as the set of its (user, movie) pairs
UserMovies(ratings) == {<<r.userId, r.movieId>> : r \in Range(ratings)}

MaxAttempts(targetCount) == targetCount * AttemptFactor

\* a loop that tests attempts <= maxAttempts
LoopContinuesInclusive(n) ==
    n.created < n.targetCount /\ n.attempts <= MaxAttempts(n.targetCount)

\* the condition of the while loop
LoopContinues(n) == n.created < n.targetCount /\ n.attempts < MaxAttempts(n.targetCount)

ParkedNeg == [pc |-> "idle", ratings |-> <<>>, movies |-> {}, targetCount |-> 0,
              attempts |-> 0, created |-> 0, negativeSamples |-> <<>>]

NegInit ==
    \E ratings \in RatingLists, numMovies \in 0..NegMovies :
        neg = [ParkedNeg EXCEPT !.ratings = ratings, !.movies = 1..numMovies]

\* prepareTrainingData up to the loop of createNegativeSamples
NegStart ==
    /\ neg.pc = "idle"
    /\ neg' = [neg EXCEPT !.pc = "loop",
                          !.targetCount = Len(PositiveInteractions(neg.ratings))]
    /\ UNCHANGED <<trainVars, rec, appVars, otherVars>>

\* one iteration of the loop
NegAttempt ==
    /\ neg.pc = "loop"
    /\ LoopContinues(neg)
    /\ \E randomUser \in 1..MaxUserId,
          randomMovie \in (IF neg.movies = {} THEN {Undefined} ELSE neg.movies) :
         neg' = IF <<randomUser, randomMovie>> \notin UserMovies(neg.ratings)
                THEN [neg EXCEPT
                        !.negativeSamples = Append(neg.negativeSamples,
                            [userId |-> randomUser, movieId |-> randomMovie]),
                        !.created = neg.created + 1,
                        !.attempts = neg.attempts + 1]
                ELSE [neg EXCEPT !.attempts = neg.attempts + 1]
    /\ UNCHANGED <<trainVars, rec, appVars, otherVars>>

\* the loop ends and createNegativeSamples returns negativeSamples
NegReturn ==
    /\ neg.pc = "loop"
    /\ ~LoopContinues(neg)
    /\ neg' = [neg EXCEPT !.pc = "done"]
    /\ UNCHANGED <<trainVars, rec, appVars, otherVars>>

(***************************************************************************)
(* buildModel: the width of the vector each tower puts out.  The three     *)
(* bodies are BaselineTwoTower of two-tower.js:867 and of part_001:151 and *)
(* WithoutDLTwoTower of part_000:88 (= two-tower.js:499).                  *)
(***************************************************************************)
Architectures == {"Baseline_tt867", "Baseline_part_001", "WithoutDL_part_000"}

Dims == 1..MaxDim

\* flatten(embedding(outputDim))
EmbeddingWidth(outputDim) == outputDim

\* layers.concatenate of widths a and b
ConcatWidth(a, b) == a + b

\* outputDim of the movie embedding
MovieEmbeddingDim(arch, embeddingDim, numGenres) ==
    IF arch = "Baseline_part_001" THEN embeddingDim - numGenres
                                  ELSE embeddingDim

UserTowerWidth(arch, embeddingDim) == EmbeddingWidth(embeddingDim)

ItemTowerWidth(arch, embeddingDim, numGenres) ==
    CASE arch = "Baseline_tt867" ->
           \* the tower ends at the concatenation
           ConcatWidth(EmbeddingWidth(MovieEmbeddingDim(arch, embeddingDim, numGenres)),
                       numGenres)
      [] arch = "Baseline_part_001" ->
           \* dense({units: finalEmbeddingDim}) over the concatenation
           embeddingDim
      [] OTHER ->
           \* add(movieFlatten, dense({units: embeddingDim})(genreInput))
           embeddingDim

\* Whether buildModel throws: an embedding of negative width cannot be
\* built (a width of 0 may or may not be), and layers.dot refuses two
\* inputs of different width.
BuildModelThrows(arch, embeddingDim, numGenres) ==
    LET w == MovieEmbeddingDim(arch, embeddingDim, numGenres)
    IN  IF w < 0 \/ UserTowerWidth(arch, embeddingDim)
                      # ItemTowerWidth(arch, embeddingDim, numGenres)
        THEN {TRUE}
        ELSE IF w = 0 THEN BOOLEAN ELSE {FALSE}

ParkedBuild == [done |-> FALSE, arch |-> "none", embeddingDim |-> 0,
                numUsers |-> 0, numItems |-> 0, numGenres |-> 0,
                threw |-> FALSE, userWidth |-> 0, itemWidth |-> 0]

BuildInit ==
    \E arch \in Architectures, e \in Dims, u \in Dims, i \in Dims, g \in Dims :
        graph = [ParkedBuild EXCEPT !.arch = arch, !.embeddingDim = e,
                                    !.numUsers = u, !.numItems = i,
                                    !.numGenres = g]

\* buildModel on a fresh object; the towers are assigned before the dot
\* layer is applied
BuildModel ==
    /\ graph.arch # "none" /\ ~graph.done
    /\ \E threw \in BuildModelThrows(graph.arch, graph.embeddingDim, graph.numGenres) :
         graph' = [graph EXCEPT
            !.done = TRUE, !.threw = threw,
            !.userWidth = UserTowerWidth(graph.arch, graph.embeddingDim),
            !.itemWidth = IF MovieEmbeddingDim(graph.arch, graph.embeddingDim,
                                               graph.numGenres) < 0
                          THEN 0
                          ELSE ItemTowerWidth(graph.arch, graph.embeddingDim,
                                              graph.numGenres)]
    /\ UNCHANGED <<trainVars, rec, appVars, neg, prep, page, runs, pureVars>>

(***************************************************************************)
(* prepareTrainingData.  MovieLensApp.prepareTrainingData works on         *)
(* data.ratings, data.movies (the set of its keys) and the samples of      *)
(* createNegativeSamples; numUsers and numItems are the data.users.size    *)
(* and data.movies.size the models are constructed with.  A genre vector   *)
(* is modelled by its length and by whether it is the all-zero default.    *)
(***************************************************************************)
\* const numGenres = 19, Array(19).fill(0), parts.slice(5, 24)
NumGenres == 19

\* Math.min(199, ...) and Math.min(499, ...)
UserClamp == MaxUserId - 1
MovieClamp == NegMovies - 1

Max(a, b) == IF a > b THEN a ELSE b

\* what createNegativeSamples(targetCount) can return
NegativeOutcomes(ratings, movies, targetCount) ==
    LET movieChoices == IF movies = {} THEN {Undefined} ELSE movies
        samples == {x \in [userId : 1..MaxUserId, movieId : movieChoices] :
                       <<x.userId, x.movieId>> \notin UserMovies(ratings)}
        canReject == \E u \in 1..MaxUserId, m \in movieChoices :
                        <<u, m>> \in UserMovies(ratings)
    IN  {ns \in UNION {[1..n -> samples] : n \in 0..targetCount} :
            Len(ns) < targetCount => canReject}

\* ...positiveInteractions.map(r => ({...r, label: 1})),
\* ...negativeInteractions.map(r => ({...r, label: 0}))
AllInteractions(ratings, negs) ==
    LET pos == PositiveInteractions(ratings)
    IN  [i \in 1..Len(pos) |->
            [userId |-> pos[i].userId, movieId |-> pos[i].movieId,
             rating |-> pos[i].rating, sampled |-> FALSE, label |-> 1]]
        \o
        [i \in 1..Len(negs) |->
            [userId |-> negs[i].userId, movieId |-> negs[i].movieId,
             rating |-> Undefined, sampled |-> TRUE, label |-> 0]]

\* the orders shuffleArray can leave an array in
Shuffles(s) ==
    {[i \in 1..Len(s) |-> s[p[i]]] : p \in Permutations(1..Len(s))}

\* one entry of userInput, movieInput and ratings
Example(r, movies) ==
    [userIndex  |-> Max(0, Min(UserClamp, r.userId - 1)),
     movieIndex |-> IF r.movieId \notin movies THEN 0
                    ELSE Max(0, Min(MovieClamp, r.movieId - 1)),
     genres     |-> NumGenres,
     zeroGenres |-> r.movieId \notin movies,
     missing    |-> r.movieId \notin movies,
     label      |-> r.label,
     rating     |-> r.rating,
     sampled    |-> r.sampled]

ParkedPrep == [pc |-> "idle", api |-> "none", ratings |-> <<>>, movies |-> {},
               numUsers |-> 0, numItems |-> 0, threw |-> FALSE,
               examples |-> <<>>]

PrepInit ==
    \E ratings \in RatingLists, numMovies \in 1..NegMovies,
       numUsers \in 1..MaxUserId, api \in {"MovieLensApp", "TwoTowerBase"} :
        prep = [ParkedPrep EXCEPT !.api = api, !.ratings = ratings,
                                  !.movies = 1..numMovies,
                                  !.numUsers = numUsers,
                                  !.numItems = numMovies]

\* MovieLensApp.prepareTrainingData()
PrepareTrainingData ==
    /\ prep.pc = "idle" /\ prep.api = "MovieLensApp"
    /\ \E negs \in NegativeOutcomes(prep.ratings, prep.movies,
                                     Len(PositiveInteractions(prep.ratings))) :
         \E all \in Shuffles(AllInteractions(prep.ratings, negs)) :
            prep' = [prep EXCEPT
               !.pc = "done",
               !.examples = [i \in 1..Len(all) |-> Example(all[i], prep.movies)]]
    /\ UNCHANGED <<trainVars, rec, appVars, neg, graph, page, runs, pureVars>>

\* TwoTowerBase.prepareTrainingData(ratings, movies): movies[itemId + 1] is
\* undefined for a movie the table lacks, and reading its genreFeatures
\* throws.
PrepareTrainingDataTTB ==
    /\ prep.pc = "idle" /\ prep.api = "TwoTowerBase"
    /\ LET threw == \E i \in DOMAIN prep.ratings :
                        prep.ratings[i].movieId \notin prep.movies
       IN  prep' = [prep EXCEPT
              !.pc = "done", !.threw = threw,
              !.examples =
                 IF threw THEN <<>>
                 ELSE [i \in DOMAIN prep.ratings |->
                         [userIndex  |-> prep.ratings[i].userId - 1,
                          movieIndex |-> prep.ratings[i].movieId - 1,
                          genres     |-> NumGenres,
                          zeroGenres |-> FALSE,
                          missing    |-> FALSE,
                          label      |-> IF prep.ratings[i].rating >= PositiveThreshold
                                         THEN 1 ELSE 0,
                          rating     |-> prep.ratings[i].rating,
                          sampled    |-> FALSE]]]
    /\ UNCHANGED <<trainVars, rec, appVars, neg, graph, page, runs, pureVars>>

(***************************************************************************)
(* The matrix factorization page of hwweek3.  window.onload races loadData *)
(* against a 30 second timer, and after the race awaits trainModel, which  *)
(* awaits model.fit.  Each action is one run of the page's code up to its  *)
(* next await; loadData, the timer and model.fit settle when the           *)
(* environment makes them.                                                 *)
(***************************************************************************)

\* epochs: 5 of model.fit
FitEpochs == 5

\* tf.layers.embedding asserts a positive inputDim: createModel throws on an
\* empty user or movie table; width 0 is left open to either outcome
CreateModelThrows(numUsers, numMovies) ==
    IF numUsers = 0 \/ numMovies = 0 THEN BOOLEAN ELSE {FALSE}

ParkedPage ==
    [pc |-> "parked", status |-> "none", load |-> "none", timer |-> "none",
     isTraining |-> FALSE, model |-> NULL, epoch |-> 0,
     predictDisabled |-> FALSE, numUsers |-> 0, numMovies |-> 0,
     numRatings |-> 0,
     \* whether model.fit has resolved, and what the last predictRating did
     fitResolved |-> FALSE, predict |-> "none"]

\* window.onload up to its await of Promise.race: the status line is set,
\* the predict button disabled, loadData called and the timer armed
PageInit ==
    page = [ParkedPage EXCEPT !.pc = "loading", !.status = "info",
                              !.load = "pending", !.timer = "armed",
                              !.predictDisabled = TRUE]

\* trainModel up to its await of model.fit; an exception of createModel is
\* caught by trainModel itself, which then returns normally
TrainModelStart(pg, threw) ==
    IF threw
    THEN [pg EXCEPT !.pc = "done", !.status = "error", !.isTraining = FALSE]
    ELSE [pg EXCEPT !.pc = "training", !.status = "info",
                    !.isTraining = TRUE, !.model = "model", !.epoch = 0]

\* loadData resolves: the globals are set; if the race is still open onload
\* goes on to fill the dropdowns and to call trainModel
LoadResolves ==
    /\ page.load = "pending"
    /\ \E nu \in 0..MaxData, nm \in 0..MaxData, nr \in 0..MaxData :
         LET loaded == [page EXCEPT !.load = "resolved", !.numUsers = nu,
                                    !.numMovies = nm, !.numRatings = nr]
         IN  IF page.pc = "loading"
             THEN \E threw \in CreateModelThrows(nu, nm) :
                      page' = TrainModelStart(loaded, threw)
             ELSE page' = loaded
    /\ UNCHANGED <<trainVars, rec, appVars, neg, graph, prep, runs, pureVars>>

\* createDemoData: 5 movies, 7 ratings, numUsers = 3
DemoUsers == 3

DemoMovies == 5

DemoRatings == 7

\* loadData rejects (a fetch failed).  The loadData of data.js:10-53 awaits
\* createDemoData in its catch block and then rethrows the error; that of
\* data.js:227-262 only rethrows, and the movies may have been parsed before
\* the failure.  If the race is still open onload's catch shows the error.
LoadRejects ==
    /\ page.load = "pending"
    /\ \E demo \in BOOLEAN, nm \in 0..MaxData :
         LET failed ==
               IF demo
               THEN [page EXCEPT !.load = "rejected", !.numUsers = DemoUsers,
                                 !.numMovies = DemoMovies,
                                 !.numRatings = DemoRatings]
               ELSE [page EXCEPT !.load = "rejected", !.numMovies = nm]
         IN  page' = IF page.pc = "loading"
                     THEN [failed EXCEPT !.pc = "done", !.status = "error"]
                     ELSE failed
    /\ UNCHANGED <<trainVars, rec, appVars, neg, graph, prep, runs, pureVars>>

\* the 30 second timer fires and rejects timeoutPromise: this settles the
\* race only if loadData has not settled it; afterwards nothing awaits it
TimerFires ==
    /\ page.timer = "armed"
    /\ page' = IF page.pc = "loading"
               THEN [page EXCEPT !.timer = "fired", !.pc = "done",
                                 !.status = "error"]
               ELSE [page EXCEPT !.timer = "fired"]
    /\ UNCHANGED <<trainVars, rec, appVars, neg, graph, prep, runs, pureVars>>

\* model.fit finishes an epoch: onEpochBegin and onEpochEnd update the
\* progress bar
FitEpoch ==
    /\ page.pc = "training"
    /\ page.epoch < FitEpochs
    /\ page' = [page EXCEPT !.epoch = @ + 1]
    /\ UNCHANGED <<trainVars, rec, appVars, neg, graph, prep, runs, pureVars>>

\* model.fit resolves: trainModel enables the predict button
FitResolves ==
    /\ page.pc = "training"
    /\ page.epoch = FitEpochs
    /\ page' = [page EXCEPT !.pc = "done", !.status = "success",
                            !.predictDisabled = FALSE, !.isTraining = FALSE,
                            !.fitResolved = TRUE]
    /\ UNCHANGED <<trainVars, rec, appVars, neg, graph, prep, runs, pureVars>>

\* model.fit rejects: the catch of trainModel shows the failure
FitThrows ==
    /\ page.pc = "training"
    /\ page' = [page EXCEPT !.pc = "done", !.status = "error",
                            !.isTraining = FALSE]
    /\ UNCHANGED <<trainVars, rec, appVars, neg, graph, prep, runs, pureVars>>

\* predictRating, a global function of the page: the guard on model and
\* isTraining, the parse of the two dropdown values (NaN for an empty
\* dropdown), then model.predict and the display of its result
PredictRating ==
    /\ page.pc # "parked"
    /\ IF page.model = NULL \/ page.isTraining
       THEN page' = [page EXCEPT !.status = "warning", !.predict = "refused"]
       ELSE IF page.numUsers = 0 \/ page.numMovies = 0
       THEN page' = [page EXCEPT !.status = "warning",
                                 !.predict = "unselected"]
       ELSE \E ok \in BOOLEAN :
                page' = [page EXCEPT !.status = IF ok THEN "success"
                                                ELSE "error",
                                     !.predict = "predicted"]
    /\ UNCHANGED <<trainVars, rec, appVars, neg, graph, prep, runs, pureVars>>

(***************************************************************************)
(* The data of the hwweek3 page.  loadData parses u.item into movies and   *)
(* u.data into ratings, parseRatingData subtracting the smallest user id   *)
(* and the smallest movie id of the file; numUsers is the number of        *)
(* distinct users and numMovies the number of movies.  createDemoData      *)
(* assigns fixed values.  The dropdowns are filled from these globals.     *)
(***************************************************************************)
MaxRawId == 3

MaxRawRatings == 2

RawIds == 1..MaxRawId

RawRatingLists ==
    UNION {[1..n -> [userId : RawIds, movieId : RawIds]] : n \in 0..MaxRawRatings}

\* Math.min over the ids of the file; Infinity for an empty file, which then
\* has no rating to normalise
MinOf(S) == CHOOSE x \in S : \A y \in S : x <= y

\* parseRatingData: ids made 0-based by subtracting the minimum
ParseRatingData(raw) ==
    [i \in DOMAIN raw |->
        [userId  |-> raw[i].userId  - MinOf({raw[k].userId  : k \in DOMAIN raw}),
         movieId |-> raw[i].movieId - MinOf({raw[k].movieId : k \in DOMAIN raw})]]

\* new Set(ratings.map(r => r.userId)).size
UniqueUsers(ratings) == Cardinality({ratings[i].userId : i \in DOMAIN ratings})

\* the ratings of createDemoData, (userId, movieId)
DemoRatingList ==
    << [userId |-> 1, movieId |-> 1], [userId |-> 1, movieId |-> 2],
       [userId |-> 1, movieId |-> 3], [userId |-> 2, movieId |-> 1],
       [userId |-> 2, movieId |-> 4], [userId |-> 3, movieId |-> 5],
       [userId |-> 3, movieId |-> 2] >>

\* populateUserDropdown: option values 0 .. min(100, numUsers) - 1
UserOptionLimit == 100

UserOptions(numUsers) == 0..(Min(UserOptionLimit, numUsers) - 1)

\* populateMovieDropdown: option.value = movie.id
MovieOptions(movies) == movies

ParkedMf ==
    [pc |-> "parked", raw |-> <<>>, movieIds |-> {}, ratings |-> <<>>,
     numUsers |-> 0, numMovies |-> 0, userOptions |-> {}, movieOptions |-> {}]

\* the files: the ratings of u.data and the movie ids of u.item
MfInit ==
    \E raw \in RawRatingLists, movieIds \in SUBSET RawIds :
        mf = [ParkedMf EXCEPT !.pc = "files", !.raw = raw,
                              !.movieIds = movieIds]

\* loadData: both files parsed
LoadDataParsed ==
    /\ mf.pc = "files"
    /\ mf' = [mf EXCEPT !.pc = "loaded",
                        !.ratings = ParseRatingData(mf.raw),
                        !.numUsers = UniqueUsers(ParseRatingData(mf.raw)),
                        !.numMovies = Cardinality(mf.movieIds)]
    /\ UNCHANGED <<programVars, ds, ix, met>>

\* createDemoData, in the catch block of loadData
CreateDemoData ==
    /\ mf.pc = "files"
    /\ mf' = [mf EXCEPT !.pc = "loaded", !.ratings = DemoRatingList,
                        !.movieIds = 1..DemoMovies,
                        !.numUsers = DemoUsers, !.numMovies = DemoMovies]
    /\ UNCHANGED <<programVars, ds, ix, met>>

\* populateUserDropdown and populateMovieDropdown
PopulateDropdowns ==
    /\ mf.pc = "loaded"
    /\ mf' = [mf EXCEPT !.pc = "populated",
                        !.userOptions = UserOptions(mf.numUsers),
                        !.movieOptions = MovieOptions(mf.movieIds)]
    /\ UNCHANGED <<programVars, ds, ix, met>>

(***************************************************************************)
(* createDataset and its iterators.  The examples are named by their       *)
(* positions 0 .. dataSize - 1, so a batch component is the sequence of    *)
(* the positions its rows were taken from.  part_001:75-113 fills the      *)
(* movie and genre rows with a loop from position to end;                  *)
(* two-tower.js:795-829 takes them with Array.prototype.slice.             *)
(***************************************************************************)
MaxDataset == 4

DatasetVersions == {"part_001", "tt740"}

\* the positions lo .. hi - 1
Positions(lo, hi) == [i \in 1..Max(hi - lo, 0) |-> lo + i - 1]

\* tensor.slice([begin], [size])
TensorSlice(begin, size) == Positions(begin, begin + size)

\* array.slice(start, end) of an array of length n, 0 <= start, 0 <= end
ArraySlice(n, start, end) == Positions(start, Min(end, n))

\* the movie ids and genre rows of the batch [position, end)
MovieRows(version, n, position, end) ==
    IF version = "part_001" THEN Positions(position, end)
    ELSE ArraySlice(n, position, end - position)

\* tf.tensor2d(values) without a shape throws on an empty array
GenreBatchThrows(rows) == rows = <<>>

ParkedDs ==
    [pc |-> "parked", version |-> "none", dataSize |-> 0, batchSize |-> 1,
     position |-> 0, epoch |-> 0, batches |-> <<>>]

\* createDataset(userInput, movieInput, ratings, batchSize) and the
\* iterator of the first epoch
DsInit ==
    \E version \in DatasetVersions, n \in 0..MaxDataset, b \in 1..MaxBatch :
        ds = [ParkedDs EXCEPT !.pc = "iterating", !.version = version,
                              !.dataSize = n, !.batchSize = b]

\* iterator.next()
IteratorNext ==
    /\ ds.pc = "iterating"
    /\ LET end  == Min(ds.position + ds.batchSize, ds.dataSize)
           rows == MovieRows(ds.version, ds.dataSize, ds.position, end)
       IN  ds' = IF ds.position >= ds.dataSize
                 THEN [ds EXCEPT !.pc = "done"]
                 ELSE IF GenreBatchThrows(rows)
                 THEN [ds EXCEPT !.pc = "threw"]
                 ELSE [ds EXCEPT
                         !.position = end,
                         !.batches = Append(@,
                            [userBatch    |-> TensorSlice(ds.position, end - ds.position),
                             movieIdBatch |-> rows,
                             genreBatch   |-> rows,
                             labelBatch   |-> TensorSlice(ds.position, end - ds.position)])]
    /\ UNCHANGED <<programVars, mf, ix, met>>

\* the next epoch of train: dataset.iterator() again
NextIterator ==
    /\ ds.pc = "done"
    /\ ds.epoch < MaxEpochs
    /\ ds' = [ds EXCEPT !.pc = "iterating", !.position = 0, !.batches = <<>>,
                        !.epoch = @ + 1]
    /\ UNCHANGED <<programVars, mf, ix, met>>

(***************************************************************************)
(* The embedding rows of MovieLensApp.  prepareTrainingData trains row     *)
(* clamp(userId - 1) of the user table and row clamp(movieId - 1) of the   *)
(* movie table; getRecommendations reads row userId - 1 and row            *)
(* movie.id - 1.  The ids are those of the loaded data.                    *)
(***************************************************************************)
MaxLoadedId == 3

LoadedIds == 1..MaxLoadedId

\* a positive rating of movie m by user u, as prepareTrainingData sees it
PositiveRating(u, m) ==
    [userId |-> u, movieId |-> m, rating |-> PositiveThreshold,
     sampled |-> FALSE, label |-> 1]

\* model.getUserEmbedding(userId - 1)
RetrievalUserIndex(userId) == userId - 1

\* model.getItemEmbedding(movie.id - 1, movie.genres)
RetrievalMovieIndex(movieId) == movieId - 1

ParkedIx ==
    [pc |-> "parked", users |-> {}, movies |-> {}, trained |-> {},
     retrieved |-> {}]

\* the users and the movies of the loaded data
IxInit ==
    \E users \in SUBSET LoadedIds, movies \in SUBSET LoadedIds :
        ix = [ParkedIx EXCEPT !.pc = "loaded", !.users = users,
                              !.movies = movies]

\* prepareTrainingData on a positive rating of every user and movie: the
\* rows it puts in userInput and movieInput
PrepareIndices ==
    /\ ix.pc = "loaded"
    /\ ix' = [ix EXCEPT
                !.pc = "prepared",
                !.trained =
                   {[userId |-> u, movieId |-> m,
                     userIndex |-> Example(PositiveRating(u, m), ix.movies).userIndex,
                     movieIndex |-> Example(PositiveRating(u, m), ix.movies).movieIndex]
                      : u \in ix.users, m \in ix.movies}]
    /\ UNCHANGED <<programVars, mf, ds, met>>

\* getRecommendations for every user over the movies: the rows it reads
GetRecommendationsIndices ==
    /\ ix.pc = "prepared"
    /\ ix' = [ix EXCEPT
                !.pc = "retrieved",
                !.retrieved =
                   {[userId |-> u, movieId |-> m,
                     userIndex |-> RetrievalUserIndex(u),
                     movieIndex |-> RetrievalMovieIndex(m)]
                      : u \in ix.users, m \in ix.movies}]
    /\ UNCHANGED <<programVars, mf, ds, met>>

(***************************************************************************)
(* calculateAllMetrics for one model.  The movies are 1 .. n in the order  *)
(* of the data.movies map, titles[m] is the title of movie m, relevant the *)
(* movies the test user rated >= 4 (one rating each), and recommendations  *)
(* what getRecommendations returned: at most k different movies.           *)
(* A fraction is the pair of its numerator and denominator.                *)
(***************************************************************************)
MaxMetricMovies == 3

MaxTitles == 2

\* const k = 5
MetricK == 5

\* the lists getRecommendations(model, testUserId, k) can return
RecommendationLists(n) ==
    {s \in UNION {[1..l -> 1..n] : l \in 0..Min(MetricK, n)} :
        \A i, j \in DOMAIN s : i # j => s[i] # s[j]}

\* Array.from(this.data.movies.values()).find(m => m.title === rec.title)
FindByTitle(titles, title) ==
    MinOf({m \in DOMAIN titles : titles[m] = title})

\* the forEach over the recommendations
Hits(titles, relevant, recommendations) ==
    Cardinality({i \in DOMAIN recommendations :
        FindByTitle(titles, titles[recommendations[i]]) \in relevant})

Precision(hits) == <<hits, MetricK>>

Recall(hits, numRatings) ==
    IF numRatings > 0 THEN <<hits, Min(numRatings, MetricK)>> ELSE <<0, 1>>

\* 2 * (precision * recall) / (precision + recall), or 0
F1(p, r) ==
    IF p[1] * r[2] + r[1] * p[2] > 0
    THEN <<2 * p[1] * r[1], p[1] * r[2] + r[1] * p[2]>>
    ELSE <<0, 1>>

ParkedMet ==
    [pc |-> "parked", titles |-> <<>>, relevant |-> {},
     recommendations |-> <<>>, hits |-> 0,
     precision |-> <<0, 1>>, recall |-> <<0, 1>>, f1 |-> <<0, 1>>]

MetInit ==
    \E n \in 1..MaxMetricMovies :
      \E titles \in [1..n -> 1..MaxTitles], relevant \in SUBSET (1..n),
         recommendations \in RecommendationLists(n) :
        met = [ParkedMet EXCEPT !.pc = "compare", !.titles = titles,
                                !.relevant = relevant,
                                !.recommendations = recommendations]

\* one pass of the loop of calculateAllMetrics
CalculateAllMetrics ==
    /\ met.pc = "compare"
    /\ LET hits == Hits(met.titles, met.relevant, met.recommendations)
           p    == Precision(hits)
           r    == Recall(hits, Cardinality(met.relevant))
       IN  met' = [met EXCEPT !.pc = "done", !.hits = hits, !.precision = p,
                              !.recall = r, !.f1 = F1(p, r)]
    /\ UNCHANGED <<programVars, mf, ds, ix>>

PureParked ==
    mf = ParkedMf /\ ds = ParkedDs /\ ix = ParkedIx /\ met = ParkedMet

(***************************************************************************)
(* Specifications.                                                         *)
(***************************************************************************)
\* one train call on a model object, and the lookups
Parked ==
    /\ graph = ParkedBuild /\ prep = ParkedPrep /\ page = ParkedPage
    /\ RunsInit /\ PureParked

Init == TrainInit /\ RecInit /\ AppInit /\ neg = ParkedNeg /\ Parked

Next ==
    \/ TrainStartBase(1, 0..MaxEpochs, 0..MaxData, 1..MaxBatch)
    \/ TrainStartTTB(1, 0..MaxEpochs, 0..MaxData)
    \/ TrainBatch(1, Results)
    \/ TrainEpochTTB(1)
    \/ Lookup

Spec == Init /\ [][Next]_vars

\* train calls that overlap on one model object
NextOverlap ==
    \E c \in CallIds :
        \/ TrainStartBase(c, {1}, 1..MaxData, {1})
        \/ TrainStartTTB(c, {1}, 1..MaxData)
        \/ TrainBatch(c, Results)
        \/ TrainEpochTTB(c)

SpecOverlap == Init /\ [][NextOverlap]_vars

\* retrieval on a model object that one train call works on
OneResult == {[loss |-> 1, acc |-> 1]}

NextRec ==
    \/ TrainStartBase(1, {0, 1}, {1}, {1})
    \/ TrainStartTTB(1, {0, 1}, {1})
    \/ TrainBatch(1, OneResult)
    \/ TrainEpochTTB(1)
    \/ RetrieveApp
    \/ RetrieveTTB

SpecRec == Init /\ [][NextRec]_vars

\* MovieLensApp
NextApp ==
    \/ \E l \in LoadIds :
          \/ LoadDataClick(l)
          \/ LoadMovies(l)
          \/ LoadRatings(l)
          \/ LoadUsers(l)
          \/ LoadFinish(l)
    \/ TrainAllModels
    \/ CompareAllModels

SpecApp == Init /\ [][NextApp]_vars

\* MovieLensApp with the trainAllModels whose training is awaited; one
\* loadData activation, clicked again whenever it has ended
NextClicks ==
    \/ \E l \in {1} :
          \/ LoadDataClick(l)
          \/ LoadMovies(l)
          \/ LoadRatings(l)
          \/ LoadUsers(l)
          \/ LoadFinish(l)
    \/ \E r \in CallIds :
          \/ TrainAllModelsClick(r)
          \/ TrainSettles(r)

SpecClicks == Init /\ [][NextClicks]_vars

\* the same with every loadData activation, so that loadData calls overlap
\* each other and the training
NextLoadTrain ==
    \/ \E l \in LoadIds :
          \/ LoadDataClick(l)
          \/ LoadMovies(l)
          \/ LoadRatings(l)
          \/ LoadUsers(l)
          \/ LoadFinish(l)
    \/ \E r \in CallIds :
          \/ TrainAllModelsClick(r)
          \/ TrainSettles(r)

SpecLoadTrain == Init /\ [][NextLoadTrain]_vars

\* createNegativeSamples; the loop is synchronous code and runs on
InitNeg == TrainInit /\ RecInit /\ AppInit /\ NegInit /\ Parked

NextNeg == NegStart \/ NegAttempt \/ NegReturn

SpecNeg == InitNeg /\ [][NextNeg]_vars /\ WF_vars(NextNeg)

\* buildModel on a fresh object of each architecture
InitBuild ==
    /\ TrainInit /\ RecInit /\ AppInit /\ neg = ParkedNeg
    /\ prep = ParkedPrep /\ page = ParkedPage /\ RunsInit /\ PureParked
    /\ BuildInit

NextBuild == BuildModel

SpecBuild == InitBuild /\ [][NextBuild]_vars

\* prepareTrainingData on loaded data
InitPrep ==
    /\ TrainInit /\ RecInit /\ AppInit /\ neg = ParkedNeg
    /\ graph = ParkedBuild /\ page = ParkedPage /\ RunsInit /\ PureParked
    /\ PrepInit

NextPrep == PrepareTrainingData \/ PrepareTrainingDataTTB

SpecPrep == InitPrep /\ [][NextPrep]_vars

\* the hwweek3 page from window.onload on
InitPage ==
    /\ TrainInit /\ RecInit /\ AppInit /\ neg = ParkedNeg
    /\ graph = ParkedBuild /\ prep = ParkedPrep /\ RunsInit /\ PureParked
    /\ PageInit

NextPage ==
    \/ LoadResolves
    \/ LoadRejects
    \/ TimerFires
    \/ FitEpoch
    \/ FitResolves
    \/ FitThrows
    \/ PredictRating

SpecPage == InitPage /\ [][NextPage]_vars

\* every variable of the program parked or in its initial state
ProgramInit ==
    /\ TrainInit /\ RecInit /\ AppInit /\ neg = ParkedNeg
    /\ graph = ParkedBuild /\ prep = ParkedPrep /\ page = ParkedPage
    /\ RunsInit

\* the data of the hwweek3 page, from the files to the dropdowns
InitMf ==
    ProgramInit /\ ds = ParkedDs /\ ix = ParkedIx /\ met = ParkedMet /\ MfInit

NextMf == LoadDataParsed \/ CreateDemoData \/ PopulateDropdowns

SpecMf == InitMf /\ [][NextMf]_vars

\* the iterators of one createDataset object
InitDs ==
    ProgramInit /\ mf = ParkedMf /\ ix = ParkedIx /\ met = ParkedMet /\ DsInit

NextDs == IteratorNext \/ NextIterator

SpecDs == InitDs /\ [][NextDs]_vars

\* Either page is open: the MovieLensApp page when the hwweek3 page is
\* parked, or the hwweek3 page.  Every awaited call settles: an awaited
\* train call of trainAllModels, and model.fit of trainModel, which goes
\* through its epochs and then resolves, or rejects.
FitSettles == FitEpoch \/ FitResolves \/ FitThrows

\* the hwweek3 page open: no button of MovieLensApp can be clicked
InitPageOnly ==
    /\ TrainInit /\ RecInit /\ neg = ParkedNeg
    /\ app = NewApp /\ compare = NoCompare
    /\ loads = [l \in LoadIds |-> "closed"]
    /\ runs = [r \in CallIds |-> [pc |-> "closed", step |-> 0]]
    /\ graph = ParkedBuild /\ prep = ParkedPrep /\ PureParked
    /\ PageInit

InitLive == Init \/ InitPageOnly

NextLive == NextClicks \/ NextPage

SpecLive ==
    /\ InitLive
    /\ [][NextLive]_vars
    /\ \A r \in CallIds : WF_vars(TrainSettles(r))
    /\ WF_vars(FitSettles)

\* the embedding rows trained and read for the loaded ids
InitIx ==
    ProgramInit /\ mf = ParkedMf /\ ds = ParkedDs /\ met = ParkedMet /\ IxInit

NextIx == PrepareIndices \/ GetRecommendationsIndices

SpecIx == InitIx /\ [][NextIx]_vars

\* calculateAllMetrics on drawn recommendations
InitMet ==
    ProgramInit /\ mf = ParkedMf /\ ds = ParkedDs /\ ix = ParkedIx /\ MetInit

NextMet == CalculateAllMetrics

SpecMet == InitMet /\ [][NextMet]_vars

(***************************************************************************)
(* The claims.                                                             *)
(***************************************************************************)

\* C1: when train resolves, history.loss and history.acc each hold exactly
\* `epochs` entries, also when batches of an epoch failed.
C1_OneEntryPerEpoch ==
    \A c \in CallIds :
        calls[c].pc = "resolved" =>
            /\ Len(calls[c].history.loss) = calls[c].epochs
            /\ Len(calls[c].history.acc) = calls[c].epochs

\* C2: a train call made while another train call on the same object has
\* not resolved is rejected and runs no batch.
C2_OverlappingTrainRejected ==
    \A c \in CallIds :
        calls[c].overlapped => calls[c].pc = "rejected" /\ ~calls[c].ran

\* C3: the list a retrieval returns has at most min(K, number of candidates)
\* entries, each entry is a candidate, and no movie occurs twice.
C3_RetrievalWithinCandidates ==
    (rec.done /\ ~rec.threw) =>
        /\ Len(rec.result) <= Min(rec.count, Len(rec.candidates))
        /\ \A i \in DOMAIN rec.result : rec.result[i].id \in Range(rec.candidates)
        /\ \A i, j \in DOMAIN rec.result :
               i # j => rec.result[i].id # rec.result[j].id

C3_Witness ==
    /\ rec.done /\ ~rec.threw
    /\ Len(rec.result) = rec.count
    /\ 0 < rec.count /\ rec.count < Len(rec.candidates)

\* the place of a scored candidate in the candidate order
PlaceOf(e) == CHOOSE i \in DOMAIN rec.scores : rec.scores[i] = e

C5_EmptyRetrieval ==
    (rec.done /\ rec.trained /\ (rec.count = 0 \/ rec.candidates = <<>>)) =>
        ~rec.threw /\ rec.result = <<>>

\* C6: getUserEmbedding, getItemEmbedding and recommend are rejected as long
\* as no train call on the object has completed.
C6_LookupNeedsTraining ==
    (lookup.op # "none" /\ ~lookup.trained) => lookup.rejected

\* C7: compareAllModels calls getUserEmbedding only on models whose train
\* call has resolved, and never while trainAllModels is in progress.
C7_CompareAfterTraining ==
    compare.untrained = {} /\ ~compare.whileTraining

\* C8: no negative sample has a (userId, movieId) pair of data.ratings.
C8_NegativesNotRated ==
    \A i \in DOMAIN neg.negativeSamples :
        ~ \E k \in DOMAIN neg.ratings :
            /\ neg.ratings[k].userId = neg.negativeSamples[i].userId
            /\ neg.ratings[k].movieId = neg.negativeSamples[i].movieId

C8_Witness ==
    /\ neg.pc = "done"
    /\ Len(neg.negativeSamples) = neg.targetCount
    /\ neg.targetCount > 0
    /\ neg.attempts > neg.created

\* C9: createNegativeSamples terminates, after at most 5 * targetCount
\* attempts and with at most targetCount samples, fewer when the attempts
\* run out.
C9_NegativeSamplingTerminates ==
    /\ [](/\ neg.attempts <= 5 * neg.targetCount
          /\ Len(neg.negativeSamples) <= neg.targetCount
          /\ neg.pc = "done" =>
               \/ Len(neg.negativeSamples) = neg.targetCount
               \/ neg.attempts = 5 * neg.targetCount)
    /\ <>(neg.pc = "done")

C9_Witness ==
    /\ neg.pc = "done"
    /\ neg.targetCount > 0
    /\ neg.attempts = 5 * neg.targetCount
    /\ Len(neg.negativeSamples) < neg.targetCount

\* C10: a throwing batch is skipped: train goes on and still resolves.
C10_BatchFailureSkipped ==
    \A c \in CallIds : calls[c].batchFailed => calls[c].pc # "rejected"

\* C11: when buildModel throws in a train call, the call is rejected, runs
\* no batch, and model, userTower and itemTower are all still null.
C11_BuildFailureLeavesNoModel ==
    \A c \in CallIds :
        calls[c].buildThrew =>
            /\ calls[c].pc = "rejected" /\ ~calls[c].ran
            /\ model = NULL /\ userTower = NULL /\ itemTower = NULL

\* C12: the tensors train creates for a batch are released before the next
\* batch starts and before train resolves or rejects, whether the batch
\* succeeded or failed: acquired and released counts agree.
C12_BatchTensorsReleased ==
    \A c \in CallIds : calls[c].acquired = calls[c].released

\* C13: for every architecture and all positive embeddingDim, numUsers,
\* numItems, numGenres, buildModel succeeds and both towers put out
\* exactly embeddingDim components.
C13_TowersHaveEmbeddingDim ==
    graph.done =>
        /\ ~graph.threw
        /\ graph.userWidth = graph.embeddingDim
        /\ graph.itemWidth = graph.embeddingDim

\* C14: every index prepareTrainingData puts into the training data is
\* within the tables the models are constructed with:
\* 0 <= userIndex < numUsers and 0 <= movieIndex < numItems.
C14_IndicesWithinTables ==
    (prep.pc = "done" /\ prep.api = "MovieLensApp") =>
        \A i \in DOMAIN prep.examples :
            /\ 0 <= prep.examples[i].userIndex
            /\ prep.examples[i].userIndex < prep.numUsers
            /\ 0 <= prep.examples[i].movieIndex
            /\ prep.examples[i].movieIndex < prep.numItems

\* C15: every training example has a label in {0, 1}; an example built from
\* an observed rating has label 1 exactly when the rating is >= 4, and a
\* synthesized negative example has label 0.
C15_LabelsFollowThreshold ==
    (prep.pc = "done" /\ ~prep.threw) =>
        \A i \in DOMAIN prep.examples :
            LET ex == prep.examples[i]
            IN  /\ ex.label \in {0, 1}
                /\ ex.sampled => ex.label = 0
                /\ ~ex.sampled => (ex.label = 1 <=> ex.rating >= 4)

C15_Witness ==
    /\ prep.pc = "done" /\ prep.api = "MovieLensApp"
    /\ \E i, j \in DOMAIN prep.examples :
          /\ prep.examples[i].sampled /\ prep.examples[i].label = 0
          /\ ~prep.examples[j].sampled /\ prep.examples[j].label = 1

\* C17: every genre vector handed to training has length numGenres (19),
\* and an interaction whose movie the movie table lacks gets the all-zero
\* vector instead of causing an error.
C17_GenreVectorsComplete ==
    prep.pc = "done" =>
        /\ ~prep.threw
        /\ \A i \in DOMAIN prep.examples :
              /\ prep.examples[i].genres = NumGenres
              /\ prep.examples[i].missing => prep.examples[i].zeroGenres

\* C16: the examples are reshuffled once per epoch: when the batches of
\* epoch number e (counted from 0) are fed, train has shuffled e + 1 times.
C16_ReshuffledEveryEpoch ==
    \A c \in CallIds :
        calls[c].pc = "batch" => calls[c].shuffles = calls[c].epoch + 1

\* C18: a train call on zero examples is rejected instead of returning a
\* training history.
C18_EmptyTrainingRejected ==
    \A c \in CallIds :
        (calls[c].pc # "idle" /\ calls[c].dataSize = 0) =>
            calls[c].pc = "rejected"

\* C19: the caller bounds training time with a timer: once the timer has
\* fired and training has not finished, initialization has ended (in the
\* error state) and no longer waits for the training.
C19_TimerBoundsTraining ==
    (page.timer = "fired" /\ ~page.fitResolved) => page.pc = "done"

\* C20: at most one trainAllModels is between isTraining = true and its
\* finally block, and a click arriving while isTraining is true or
\* isDataLoaded is false is refused: it leaves models, trainingHistories
\* and every other field of the app alone and starts no train call.
RunsInTraining == {r \in CallIds : runs[r].pc = "train"}

RefusedClickChangesNothing ==
    \A r \in CallIds :
        (runs[r].pc = "idle" /\ runs'[r].pc # "idle" /\ TrainGuardRefuses(app)) =>
            (runs'[r].pc = "refused" /\ app' = app /\ calls' = calls)

C20_OneTrainAllModels ==
    /\ [](Cardinality(RunsInTraining) <= 1)
    /\ [](RunsInTraining # {} => app.isTraining)
    /\ [][RefusedClickChangesNothing]_vars

C20_Witness ==
    \E r, q \in CallIds :
        /\ runs[r].pc = "refused"
        /\ runs[q].pc = "train"
        /\ app.isDataLoaded

\* C21: data loading and training never overlap: while a trainAllModels is
\* in progress (isTraining is true) no loadData execution is in progress.
C21_LoadingAndTrainingApart ==
    (app.isTraining \/ RunsInTraining # {}) =>
        \A l \in LoadIds : loads[l] = "idle"

\* C22: trainAllModels trains baseline, then mlp, then deep, each after the
\* one before it has resolved: while the train call of deep is awaited the
\* history of mlp is stored, and while that of mlp is awaited the history
\* of baseline is stored.
C22_TrainedInOrder ==
    \A r \in CallIds :
        runs[r].pc = "train" =>
            /\ TrainingOrder[runs[r].step] = "deep" =>
                   {"baseline", "mlp"} \subseteq app.trainingHistories
            /\ TrainingOrder[runs[r].step] = "mlp" =>
                   "baseline" \in app.trainingHistories

\* C23: predictRating calls model.predict only after trainModel has
\* completed successfully.
C23_PredictOnlyAfterTraining ==
    page.predict = "predicted" => page.fitResolved

\* C24: when loadData fails while window.onload awaits it, the page goes on
\* with the demo data: initialization does not end before trainModel has
\* created the model.
C24_FallbackToDemoData ==
    (page.load = "rejected" /\ page.timer = "armed" /\ page.pc = "done") =>
        /\ page.numUsers = DemoUsers
        /\ page.numMovies = DemoMovies
        /\ page.model # NULL

\* C25: every rating used for training has 0 <= userId < numUsers and
\* 0 <= movieId < numMovies, and so has every id the dropdowns offer to
\* predictRating.
C25_IdsWithinTables ==
    /\ mf.pc \in {"loaded", "populated"} =>
          \A i \in DOMAIN mf.ratings :
              /\ 0 <= mf.ratings[i].userId /\ mf.ratings[i].userId < mf.numUsers
              /\ 0 <= mf.ratings[i].movieId /\ mf.ratings[i].movieId < mf.numMovies
    /\ mf.pc = "populated" =>
          /\ \A u \in mf.userOptions : 0 <= u /\ u < mf.numUsers
          /\ \A m \in mf.movieOptions : 0 <= m /\ m < mf.numMovies

\* C26: an iterator of createDataset never throws; its k-th batch (k from
\* 0) holds the positions k*batchSize .. min((k+1)*batchSize, dataSize) - 1
\* in each of its four components; and when it reports done it has yielded
\* ceil(dataSize / batchSize) batches.
BatchPositions(k) ==
    Positions((k - 1) * ds.batchSize, Min(k * ds.batchSize, ds.dataSize))

C26_BatchesCoverData ==
    /\ ds.pc # "threw"
    /\ \A k \in DOMAIN ds.batches :
          /\ ds.batches[k].userBatch = BatchPositions(k)
          /\ ds.batches[k].movieIdBatch = BatchPositions(k)
          /\ ds.batches[k].genreBatch = BatchPositions(k)
          /\ ds.batches[k].labelBatch = BatchPositions(k)
    /\ ds.pc = "done" =>
          Len(ds.batches) = (ds.dataSize + ds.batchSize - 1) \div ds.batchSize

\* C27: a training run that has set isTraining to true sets it back to
\* false, in trainAllModels of MovieLensApp and in trainModel of the
\* hwweek3 page, provided every awaited call settles.
C27_TrainingFlagCleared ==
    /\ app.isTraining ~> ~app.isTraining
    /\ page.isTraining ~> ~page.isTraining

C27_Witness ==
    \E r \in CallIds :
        /\ runs[r].pc = "failed"
        /\ runs[r].step >= 1
        /\ ~app.isTraining

\* C28: whenever isDataLoaded is true, data.movies, data.ratings and
\* data.users are all loaded (not null).
C28_LoadedDataComplete ==
    app.isDataLoaded =>
        /\ app.data.movies # NULL
        /\ app.data.ratings # NULL
        /\ app.data.users # NULL

\* C29: for every user and movie of the loaded data, the rows that
\* getRecommendations reads are the rows prepareTrainingData trained for
\* them.
C29_RetrievalUsesTrainedRows ==
    ix.pc = "retrieved" => ix.retrieved = ix.trained

\* C30: the metrics of calculateAllMetrics lie in [0, 1]: the hit count
\* is at most k and at most the number of the user's ratings >= 4, so
\* precision, recall and f1 are fractions between 0 and 1.
InUnitInterval(f) == 0 <= f[1] /\ f[1] <= f[2]

C30_MetricsInUnitInterval ==
    met.pc = "done" =>
        /\ met.hits <= Min(MetricK, Cardinality(met.relevant))
        /\ InUnitInterval(met.precision)
        /\ InUnitInterval(met.recall)
        /\ InUnitInterval(met.f1)

====
